---- MODULE Spec2Model ----
(***************************************************************************)
(* Model of the /phones resource server (src/routes/phones.js, lines 1-352,*)
(* mounted by src/index.js).  The document store is a sequence of phone    *)
(* documents in insertion order (the order an unsorted find returns them); *)
(* every request handler is one action that reads or writes the store and  *)
(* leaves the request it served and the response it sent in `response`.    *)
(*                                                                         *)
(* Strings are sequences of one-character strings, so that trim, parseInt, *)
(* RegExp matching and encodeURIComponent are computed, not assumed.       *)
(* JSON / query values are tagged records: Undefined, Str(s), Num(n).      *)
(***************************************************************************)
EXTENDS Integers, Sequences, FiniteSets, TLC

(***************************************************************************)
(* Bounds of the model.                                                    *)
(***************************************************************************)
MaxPhones == 2      \* documents held by the store at one time
MaxIds == 3         \* identifiers the store hands out in one behaviour
MaxClock == 1       \* ticks of the wall clock

(***************************************************************************)
(* JavaScript values.                                                      *)
(***************************************************************************)
Undefined == [t |-> "undefined"]
Str(s) == [t |-> "string", v |-> s]
Num(n) == [t |-> "number", v |-> n]
Bool(b) == [t |-> "boolean", v |-> b]
EmptyObject == [k \in {} |-> Undefined]

\* The result of parseInt on a string with no leading digits; the value
\* lies outside every integer the bounded inputs can denote.
NaN == -1000000

IsNaN(n) == n = NaN

\* typeof v === "string"
IsString(x) == x.t = "string"

\* JavaScript truthiness of undefined, strings and numbers.
Truthy(x) ==
    CASE x.t = "undefined" -> FALSE
      [] x.t = "string" -> x.v # <<>>
      [] x.t = "number" -> x.v # 0 /\ ~IsNaN(x.v)
      [] OTHER -> TRUE

\* a || b
OrElse(a, b) == IF Truthy(a) THEN a ELSE b

(***************************************************************************)
(* String.prototype.trim over the white space of the alphabet.             *)
(***************************************************************************)
WhiteSpace == {" "}

RECURSIVE TrimStart(_)
TrimStart(s) ==
    IF s # <<>> /\ Head(s) \in WhiteSpace THEN TrimStart(Tail(s)) ELSE s

RECURSIVE TrimEnd(_)
TrimEnd(s) ==
    IF s # <<>> /\ s[Len(s)] \in WhiteSpace
    THEN TrimEnd(SubSeq(s, 1, Len(s) - 1))
    ELSE s

Trim(s) == TrimEnd(TrimStart(s))

\* nonEmptyString(v)
nonEmptyString(x) == IsString(x) /\ Len(Trim(x.v)) > 0

(***************************************************************************)
(* parseInt(s, 10): leading white space, an optional sign, then the longest*)
(* prefix of decimal digits; NaN when that prefix is empty.                *)
(***************************************************************************)
DigitVal ==
    ("0" :> 0) @@ ("1" :> 1) @@ ("2" :> 2) @@ ("3" :> 3) @@ ("4" :> 4) @@
    ("5" :> 5) @@ ("6" :> 6) @@ ("7" :> 7) @@ ("8" :> 8) @@ ("9" :> 9)

RECURSIVE ParseDigits(_, _, _, _)
ParseDigits(s, i, acc, any) ==
    IF i > Len(s) \/ s[i] \notin DOMAIN DigitVal
    THEN IF any THEN acc ELSE NaN
    ELSE ParseDigits(s, i + 1, acc * 10 + DigitVal[s[i]], TRUE)

parseInt(s) ==
    LET t == TrimStart(s)
        signed == t # <<>> /\ t[1] \in {"-", "+"}
        r == ParseDigits(t, IF signed THEN 2 ELSE 1, 0, FALSE)
    IN  IF IsNaN(r) THEN NaN
        ELSE IF signed /\ t[1] = "-" THEN 0 - r ELSE r

\* Math.max(a, b): NaN when either argument is NaN.
MathMax(a, b) ==
    IF IsNaN(a) \/ IsNaN(b) THEN NaN ELSE IF a >= b THEN a ELSE b

\* Math.ceil(a / b) for a >= 0 and b >= 1; NaN when an argument is NaN.
MathCeilDiv(a, b) ==
    IF IsNaN(a) \/ IsNaN(b) THEN NaN ELSE (a + b - 1) \div b

\* a < b and a > b on numbers: false when either side is NaN.
Less(a, b) == ~IsNaN(a) /\ ~IsNaN(b) /\ a < b

\* `${n}`: the decimal digits of a number, "NaN" for NaN.
DigitChar == <<"0", "1", "2", "3", "4", "5", "6", "7", "8", "9">>

RECURSIVE NatToString(_)
NatToString(n) ==
    IF n < 10 THEN <<DigitChar[n + 1]>>
    ELSE NatToString(n \div 10) \o <<DigitChar[(n % 10) + 1]>>

NumberToString(n) ==
    IF IsNaN(n) THEN <<"N", "a", "N">>
    ELSE IF n < 0 THEN <<"-">> \o NatToString(0 - n)
    ELSE NatToString(n)

(***************************************************************************)
(* encodeURIComponent over the alphabet of the model: letters, digits and  *)
(* "." are unreserved and kept, a space becomes %20.                       *)
(***************************************************************************)
RECURSIVE encodeURIComponent(_)
encodeURIComponent(s) ==
    IF s = <<>> THEN <<>>
    ELSE (IF Head(s) = " " THEN <<"%", "2", "0">> ELSE <<Head(s)>>)
         \o encodeURIComponent(Tail(s))

(***************************************************************************)
(* new RegExp(source, "i").test(s) for the sources the handlers build:     *)
(* "^" and "$" anchor at the start and the end of the subject, "." matches *)
(* any character, every other character of the alphabet matches itself     *)
(* ignoring letter case.                                                   *)
(***************************************************************************)
ToLower(c) ==
    CASE c = "A" -> "a"
      [] c = "B" -> "b"
      [] OTHER -> c

RECURSIVE MatchHere(_, _, _, _)
MatchHere(src, i, s, j) ==
    IF i > Len(src) THEN TRUE
    ELSE IF src[i] = "^" THEN j = 1 /\ MatchHere(src, i + 1, s, j)
    ELSE IF src[i] = "$" THEN j = Len(s) + 1 /\ MatchHere(src, i + 1, s, j)
    ELSE /\ j <= Len(s)
         /\ (src[i] = "." \/ ToLower(src[i]) = ToLower(s[j]))
         /\ MatchHere(src, i + 1, s, j + 1)

RegExpTest(src, s) == \E j \in 1..(Len(s) + 1) : MatchHere(src, 1, s, j)

(***************************************************************************)
(* The document store (the Phone model of src/models/Phones.js).           *)
(***************************************************************************)
VARIABLES
    store,      \* sequence of phone documents, in insertion order
    nextId,     \* number of identifiers handed out so far
    now,        \* the wall clock
    response,   \* the request served last and the response it got
    seed,       \* the POST /phones/seed in progress, if any
    deleted,    \* history: the identifiers DELETE has answered 204 for
    submitted,  \* history: for each record whose last write was a POST
                \* /phones or a PUT, the method and the body of that request
    wire,       \* the request the client has sent and the middleware has
                \* not passed on or turned down yet, as it was sent
    pending,    \* the updates handlers have issued and the store has not
                \* applied yet
    done,       \* history: the updates the store has applied, in order
    storeUp     \* whether the store answers; its calls throw when it does not

vars == <<store, nextId, now, response, seed, deleted, submitted,
          wire, pending, done, storeUp>>

\* No request is on its way.
NoWire == [method |-> "NONE"]

\* What the handlers that run to their end in one step leave alone.
aux == <<wire, pending, done, storeUp>>

\* History kept with a running seed: another request has changed the store
\* since the seed began.
Disturbed(before, after) ==
    IF after # before /\ seed.pc # "idle"
    THEN [seed EXCEPT !.disturbed = TRUE] ELSE seed

\* The history `submitted` with the entry of one record added or dropped.
Remember(h, id, method, body) ==
    [k \in DOMAIN h \cup {id} |->
        IF k = id THEN [method |-> method, body |-> body] ELSE h[k]]
Forget(h, id) == [k \in DOMAIN h \ {id} |-> h[k]]

\* A filter is an object with the optional keys "brand" (a RegExp source)
\* and "$or" (a list of one-field clauses, each a RegExp source).
MatchesFilter(doc, filter) ==
    /\ "brand" \in DOMAIN filter => RegExpTest(filter["brand"], doc.brand)
    /\ "$or" \in DOMAIN filter =>
          \E k \in 1..Len(filter["$or"]) :
              \E f \in DOMAIN filter["$or"][k] :
                  RegExpTest(filter["$or"][k][f], doc[f])

\* Phone.find(filter): the matching documents in store order.
Find(st, filter) == SelectSeq(st, LAMBDA d : MatchesFilter(d, filter))

\* Phone.countDocuments(filter)
CountDocuments(st, filter) == Len(Find(st, filter))

\* Variant: a skip past the end is pulled back to the last `limit` documents.
SkipLimit_Clamped(docs, skip, limit) ==
    LET from == IF skip < Len(docs) THEN skip
                ELSE IF Len(docs) > limit THEN Len(docs) - limit ELSE 0
    IN  SubSeq(docs, from + 1,
               IF from + limit <= Len(docs) THEN from + limit ELSE Len(docs))

\* Query.skip(n).limit(m) applied to a result list.
SkipLimit(docs, skip, limit) ==
    SubSeq(docs, skip + 1, IF skip + limit <= Len(docs) THEN skip + limit ELSE Len(docs))

(***************************************************************************)
(* Link building.  An href is the origin, the path and the query string;   *)
(* the query string is kept as the list of its name=value pairs in the     *)
(* order the handler writes them.                                          *)
(***************************************************************************)
baseUrl(req) == req.origin

collectionHref(req, extra) ==
    [base |-> baseUrl(req), path |-> <<"phones">>, query |-> extra]

itemHref(req, id) ==
    [base |-> baseUrl(req), path |-> <<"phones", id>>, query |-> <<>>]

Pair(name, value) == <<name, value>>

(***************************************************************************)
(* Requests and responses.                                                 *)
(***************************************************************************)
Origin == "http://host"

\* A response that has been taken by the client: no request is being served.
Idle ==
    [req |-> [method |-> "NONE", path |-> <<>>, origin |-> Origin,
              query |-> EmptyObject, body |-> EmptyObject,
              headers |-> EmptyObject],
     status |-> 0, body |-> EmptyObject, headers |-> EmptyObject]

Request(method, path, query, body) ==
    [method |-> method, path |-> path, origin |-> Origin,
     query |-> query, body |-> body, headers |-> EmptyObject]

\* res.status(n).json(body) / res.sendStatus(n)
Reply(req, status, body) ==
    [req |-> req, status |-> status, body |-> body, headers |-> EmptyObject]

\* An exception that leaves an async handler which has no try/catch: the
\* handler sends nothing, the client gets no success response.
Unhandled(req) == Reply(req, 500, EmptyObject)

(***************************************************************************)
(* GET /phones  (src/routes/phones.js 49-151)                              *)
(***************************************************************************)
\* const q = (req.query.q || "").toString().trim();
QueryQ(req) == Trim(OrElse(req.query.q, Str(<<>>)).v)

\* const brand = (req.query.brand || "").toString().trim();
QueryBrand(req) == Trim(OrElse(req.query.brand, Str(<<>>)).v)

BrandClause(brand) ==
    IF brand # <<>> THEN "brand" :> (<<"^">> \o brand \o <<"$">>) ELSE EmptyObject

OrClause(q) ==
    IF q # <<>>
    THEN "$or" :> <<"title" :> q, "brand" :> q, "description" :> q>>
    ELSE EmptyObject

BuildFilter(q, brand) == BrandClause(brand) @@ OrClause(q)

\* Variant: pagination is switched on by `page` as well as by `limit`.
hasLimit_OrPage(req) ==
    \/ req.query.limit # Undefined /\ req.query.limit # Str(<<>>)
    \/ req.query.page # Undefined /\ req.query.page # Str(<<>>)

hasLimit(req) == req.query.limit # Undefined /\ req.query.limit # Str(<<>>)

\* const page = Math.max(parseInt(req.query.page || "1", 10), 1);
PageOf(req) == MathMax(parseInt(OrElse(req.query.page, Str(<<"1">>)).v), 1)

\* const limit = Math.max(parseInt(req.query.limit || "10", 10), 1);
LimitOf(req) == MathMax(parseInt(OrElse(req.query.limit, Str(<<"1", "0">>)).v), 1)

\* Variant: the skip is counted from page 0.
SkipOf_PageTimesLimit(page, limit) ==
    IF IsNaN(page) \/ IsNaN(limit) THEN NaN ELSE page * limit

\* const skip = (page - 1) * limit;
SkipOf(page, limit) ==
    IF IsNaN(page) \/ IsNaN(limit) THEN NaN ELSE (page - 1) * limit

\* const pages = Math.max(Math.ceil(total / limit), 1);
PagesOf(total, limit) == MathMax(MathCeilDiv(total, limit), 1)

\* The projection "title brand" mapped to the listed item.
MapItem(req, p) ==
    [id |-> p.id, title |-> p.title, brand |-> p.brand,
     _links |-> [self |-> [href |-> itemHref(req, p.id)],
                 collection |-> [href |-> collectionHref(req, <<>>)]]]

MapItems(req, docs) == [k \in 1..Len(docs) |-> MapItem(req, docs[k])]

\* (q ? `&q=${encodeURIComponent(q)}` : "") + (brand ? `&brand=...` : "")
FilterParams(q, brand) ==
    (IF q # <<>> THEN <<Pair("q", encodeURIComponent(q))>> ELSE <<>>)
    \o (IF brand # <<>> THEN <<Pair("brand", encodeURIComponent(brand))>> ELSE <<>>)

\* collectionHref(req, `?page=${page}&limit=${limit}`) + q + brand
PageHref(req, page, limit, q, brand) ==
    collectionHref(req,
        <<Pair("page", NumberToString(page)), Pair("limit", NumberToString(limit))>>
        \o FilterParams(q, brand))

\* The self link of the unpaginated branch (line 81).
UnpagedSelfHref(req, q, brand) == collectionHref(req, <<>>)

\* The collection link of the unpaginated branch (line 82).
UnpagedCollectionHref(req, q, brand) == collectionHref(req, <<>>)

\* const selfHref (lines 112-114)
selfHref(req, page, limit, q, brand) == PageHref(req, page, limit, q, brand)

\* const collectionLink (lines 116-119)
collectionLink(req, q, brand) == collectionHref(req, FilterParams(q, brand))

\* Variant: page <= pages.
HasNext_Inclusive(page, pages) == ~IsNaN(page) /\ ~IsNaN(pages) /\ page <= pages

\* page < pages  (line 122)
HasNext(page, pages) == Less(page, pages)

\* page > 1  (line 129)
HasPrev(page) == Less(1, page)

\* const nextHref (lines 121-126)
nextHref(req, page, limit, q, brand) == PageHref(req, page + 1, limit, q, brand)

\* const prevHref (lines 128-133)
prevHref(req, page, limit, q, brand) == PageHref(req, page - 1, limit, q, brand)

\* The body of the branch without limit (lines 66-85).
UnpagedBody(st, req) ==
    LET q == QueryQ(req)
        brand == QueryBrand(req)
        items == Find(st, BuildFilter(q, brand))
    IN  [items |-> MapItems(req, items),
         _links |-> [self |-> [href |-> UnpagedSelfHref(req, q, brand)],
                     collection |-> [href |-> UnpagedCollectionHref(req, q, brand)]]]

\* The body of the branch with limit (lines 97-150), from the documents and
\* the count the store returned.  A NaN in it is serialised as null.
PagedBody(req, docs, total) ==
    LET q == QueryQ(req)
        brand == QueryBrand(req)
        page == PageOf(req)
        limit == LimitOf(req)
        pages == PagesOf(total, limit)
        items == MapItems(req, docs)
    IN  [items |-> items,
         pagination |-> [page |-> page, limit |-> limit, pages |-> pages,
                         total |-> total, count |-> Len(items)],
         _links |->
            ("self" :> [href |-> selfHref(req, page, limit, q, brand)])
            @@ ("collection" :> [href |-> collectionLink(req, q, brand)])
            @@ (IF HasNext(page, pages)
                THEN "next" :> [href |-> nextHref(req, page, limit, q, brand)]
                ELSE EmptyObject)
            @@ (IF HasPrev(page)
                THEN "prev" :> [href |-> prevHref(req, page, limit, q, brand)]
                ELSE EmptyObject)]

\* Phone.find(filter).skip(skip).limit(limit) (line 93).  With a number the
\* store returns the page.  A NaN skip or limit is outside the store's
\* contract: the store either rejects the query or ignores the NaN option.
FindPage(st, filter, skip, limit) ==
    IF ~IsNaN(skip) /\ ~IsNaN(limit)
    THEN {[ok |-> TRUE, docs |-> SkipLimit(Find(st, filter), skip, limit)]}
    ELSE {[ok |-> FALSE, docs |-> <<>>],
          [ok |-> TRUE,
           docs |-> SkipLimit(Find(st, filter),
                              IF IsNaN(skip) THEN 0 ELSE skip,
                              IF IsNaN(limit) THEN Len(st) ELSE limit)]}

\* Every response the handler can give to req on store content st.
GetCollectionResponses(st, req) ==
    IF ~hasLimit(req)
    THEN {Reply(req, 200, UnpagedBody(st, req))}
    ELSE LET filter == BuildFilter(QueryQ(req), QueryBrand(req))
             page == PageOf(req)
             limit == LimitOf(req)
             total == CountDocuments(st, filter)
         IN  {IF r.ok THEN Reply(req, 200, PagedBody(req, r.docs, total))
                      ELSE Unhandled(req) :
              r \in FindPage(st, filter, SkipOf(page, limit), limit)}

(***************************************************************************)
(* POST /phones  (src/routes/phones.js 156-175)                            *)
(***************************************************************************)
\* Variant: a value of white space only counts as given.
validateFullBody_Untrimmed(body) ==
    IF ~(IsString(body.title) /\ Len(body.title.v) > 0) THEN "title is required"
    ELSE IF ~(IsString(body.brand) /\ Len(body.brand.v) > 0) THEN "brand is required"
    ELSE IF ~(IsString(body.description) /\ Len(body.description.v) > 0)
    THEN "description is required"
    ELSE "null"

\* The message of the first required field that is no non-empty string.
validateFullBody(body) ==
    IF ~nonEmptyString(body.title) THEN "title is required"
    ELSE IF ~nonEmptyString(body.brand) THEN "brand is required"
    ELSE IF ~nonEmptyString(body.description) THEN "description is required"
    ELSE "null"

\* faker.image.url()
FakerImageUrls == {<<"u">>}

\* Variant: the required fields are stored as they were sent.
CreatedPhone_Untrimmed(id, body, url, clock) ==
    [id |-> id,
     title |-> body.title.v,
     brand |-> body.brand.v,
     description |-> body.description.v,
     imageUrl |-> IF nonEmptyString(body.imageUrl) THEN Trim(body.imageUrl.v) ELSE url,
     reviews |-> IF nonEmptyString(body.reviews) THEN Str(Trim(body.reviews.v)) ELSE Undefined,
     hasBookmark |-> FALSE,
     date |-> clock]

\* The document Phone.create stores: schema defaults for hasBookmark and date.
CreatedPhone(id, body, url, clock) ==
    [id |-> id,
     title |-> Trim(body.title.v),
     brand |-> Trim(body.brand.v),
     description |-> Trim(body.description.v),
     imageUrl |-> IF nonEmptyString(body.imageUrl) THEN Trim(body.imageUrl.v) ELSE url,
     reviews |-> IF nonEmptyString(body.reviews) THEN Str(Trim(body.reviews.v)) ELSE Undefined,
     hasBookmark |-> FALSE,
     date |-> clock]

\* { ...doc.toJSON(), _links: { self, collection } }
DetailBody(req, doc) ==
    ("_links" :> [self |-> [href |-> itemHref(req, doc.id)],
                  collection |-> [href |-> collectionHref(req, <<>>)]])
    @@ doc

ErrorBody(msg) == [error |-> msg]

PostCreate(body) ==
    LET req == Request("POST", <<"phones">>, EmptyObject, body)
        error == validateFullBody(body)
    IN  /\ response = Idle
        /\ IF error # "null"
           THEN /\ response' = Reply(req, 400, ErrorBody(error))
                /\ UNCHANGED <<store, nextId, now, submitted>>
           ELSE /\ Len(store) < MaxPhones
                /\ nextId < MaxIds
                /\ \E url \in FakerImageUrls :
                      LET created == CreatedPhone(nextId + 1, body, url, now)
                      IN  /\ store' = Append(store, created)
                          /\ response' = Reply(req, 201, DetailBody(req, created))
                /\ nextId' = nextId + 1
                /\ submitted' = Remember(submitted, nextId + 1, "POST", body)
                /\ UNCHANGED now
        /\ seed' = Disturbed(store, store')
        /\ UNCHANGED deleted
        /\ UNCHANGED aux

(***************************************************************************)
(* DELETE /phones/:id  (src/routes/phones.js 337-350)                      *)
(***************************************************************************)
\* An :id that is no ObjectId string.
BadId == 0

\* mongoose.isValidObjectId(req.params.id)
isValidObjectId(id) == id # BadId

\* The positions of the documents with this id (at most one).
IndexOf(st, id) == {k \in 1..Len(st) : st[k].id = id}

\* Variant: nothing is removed.
RemoveAt_Keep(st, k) == st

\* The list without its k-th document.
RemoveAt(st, k) == SubSeq(st, 1, k - 1) \o SubSeq(st, k + 1, Len(st))

DeleteDetail(id) ==
    LET req == Request("DELETE", <<"phones", id>>, EmptyObject, EmptyObject)
    IN  /\ response = Idle
        /\ IF ~isValidObjectId(id)
           THEN /\ response' = Reply(req, 400, ErrorBody("Invalid id format"))
                /\ UNCHANGED <<store, deleted, submitted>>
           ELSE IF IndexOf(store, id) = {}
           THEN /\ response' = Reply(req, 404, ErrorBody("Phone not found"))
                /\ UNCHANGED <<store, deleted, submitted>>
           ELSE /\ store' = RemoveAt(store, CHOOSE k \in IndexOf(store, id) : TRUE)
                /\ response' = Reply(req, 204, EmptyObject)
                /\ deleted' = deleted \cup {id}
                /\ submitted' = Forget(submitted, id)
        /\ seed' = Disturbed(store, store')
        /\ UNCHANGED <<nextId, now>>
        /\ UNCHANGED aux

(***************************************************************************)
(* GET /phones/:id with If-Modified-Since  (src/routes/phones.js 213-244)  *)
(***************************************************************************)
\* Clock ticks in one second: the stored date has sub-second precision, an
\* HTTP date has none.
TicksPerSecond == 2

\* A header value that is a parseable date, denoting the instant `ticks`.
DateString(ticks) == [t |-> "date", v |-> ticks]

\* new Date(s).getTime(): NaN for a string that is no date.
DateParse(h) == IF h.t = "date" THEN h.v ELSE NaN

\* date.toUTCString(): the instant with its sub-second part dropped.
toUTCString(ticks) == DateString((ticks \div TicksPerSecond) * TicksPerSecond)

\* Phone.findById(id): the documents with this id (none or one).
FindById(st, id) == {st[k] : k \in IndexOf(st, id)}

\* Variant: a record last modified at the instant given counts as modified.
NotModifiedSince_Strict(last, ims) ==
    Truthy(ims) /\ ~IsNaN(DateParse(ims)) /\ last < DateParse(ims)

\* !isNaN(imsDate.getTime()) && last <= imsDate
NotModifiedSince(last, ims) ==
    Truthy(ims) /\ ~IsNaN(DateParse(ims)) /\ last <= DateParse(ims)

GetDetailResponse(st, req, id, ims) ==
    IF ~isValidObjectId(id)
    THEN Reply(req, 400, ErrorBody("Invalid id format"))
    ELSE IF FindById(st, id) = {}
    THEN Reply(req, 404, ErrorBody("Phone not found"))
    ELSE LET phone == CHOOSE d \in FindById(st, id) : TRUE
             last == phone.date
         IN  IF NotModifiedSince(last, ims)
             THEN Reply(req, 304, EmptyObject)
             ELSE [Reply(req, 200, DetailBody(req, phone))
                      EXCEPT !.headers = ("Last-Modified" :> toUTCString(last))]

GetDetail(id, ims) ==
    LET req == [Request("GET", <<"phones", id>>, EmptyObject, EmptyObject)
                   EXCEPT !.headers = ("if-modified-since" :> ims)]
    IN  /\ response = Idle
        /\ response' = GetDetailResponse(store, req, id, ims)
        /\ UNCHANGED <<store, nextId, now, seed, deleted, submitted>>
        /\ UNCHANGED aux

(***************************************************************************)
(* Phone.findByIdAndUpdate(id, update, { new: true }): the fields of the   *)
(* update are set on the document with this id, the others are kept; a     *)
(* missing document is not created.                                        *)
(***************************************************************************)
\* Variant: the document is replaced, a field the update does not name
\* falls back to its schema default.
ApplyUpdate_Replace(doc, update) ==
    [f \in DOMAIN doc |->
        IF f \in DOMAIN update THEN update[f]
        ELSE IF f = "reviews" THEN Undefined
        ELSE IF f = "hasBookmark" THEN FALSE
        ELSE doc[f]]

ApplyUpdate(doc, update) ==
    [f \in DOMAIN doc |-> IF f \in DOMAIN update THEN update[f] ELSE doc[f]]

FindByIdAndUpdate(st, id, update) ==
    [k \in 1..Len(st) |-> IF st[k].id = id THEN ApplyUpdate(st[k], update) ELSE st[k]]

(***************************************************************************)
(* PUT /phones/:id  (src/routes/phones.js 249-283)                         *)
(***************************************************************************)
\* Variant: an absent imageUrl is replaced by a freshly generated one.
PutUpdate_FreshImage(body, clock) ==
    ("title" :> Trim(body.title.v))
    @@ ("brand" :> Trim(body.brand.v))
    @@ ("description" :> Trim(body.description.v))
    @@ ("imageUrl" :> IF nonEmptyString(body.imageUrl)
                      THEN Trim(body.imageUrl.v)
                      ELSE <<"u">> \o NumberToString(clock))
    @@ (IF nonEmptyString(body.reviews)
        THEN "reviews" :> Str(Trim(body.reviews.v)) ELSE EmptyObject)
    @@ ("date" :> clock)

\* The update object of lines 260-267.
PutUpdate(body, clock) ==
    ("title" :> Trim(body.title.v))
    @@ ("brand" :> Trim(body.brand.v))
    @@ ("description" :> Trim(body.description.v))
    @@ (IF nonEmptyString(body.imageUrl)
        THEN "imageUrl" :> Trim(body.imageUrl.v) ELSE EmptyObject)
    @@ (IF nonEmptyString(body.reviews)
        THEN "reviews" :> Str(Trim(body.reviews.v)) ELSE EmptyObject)
    @@ ("date" :> clock)

PutDetail(id, body) ==
    LET req == Request("PUT", <<"phones", id>>, EmptyObject, body)
        error == validateFullBody(body)
    IN  /\ response = Idle
        /\ IF ~isValidObjectId(id)
           THEN /\ response' = Reply(req, 400, ErrorBody("Invalid id format"))
                /\ UNCHANGED <<store, submitted>>
           ELSE IF error # "null"
           THEN /\ response' = Reply(req, 400, ErrorBody(error))
                /\ UNCHANGED <<store, submitted>>
           ELSE IF FindById(store, id) = {}
           THEN /\ response' = Reply(req, 404, ErrorBody("Phone not found"))
                /\ UNCHANGED <<store, submitted>>
           ELSE /\ store' = FindByIdAndUpdate(store, id, PutUpdate(body, now))
                /\ response' =
                      Reply(req, 200,
                            DetailBody(req, CHOOSE d \in FindById(store', id) : TRUE))
                /\ submitted' = Remember(submitted, id, "PUT", body)
        /\ seed' = Disturbed(store, store')
        /\ UNCHANGED <<nextId, now, deleted>>
        /\ UNCHANGED aux

(***************************************************************************)
(* PATCH /phones/:id  (src/routes/phones.js 288-332)                       *)
(***************************************************************************)
\* "f" in req.body
In(body, f) == body[f] # Undefined

\* The fields the handler looks at, in the order it looks at them.
PatchFields == <<"title", "brand", "description", "imageUrl">>

\* Variant: a supplied field that is no non-empty string is skipped.
PatchError_Lenient(body) == "null"

\* The error of the first supplied field that is no non-empty string.
PatchError(body) ==
    LET bad == {k \in 1..Len(PatchFields) :
                   In(body, PatchFields[k]) /\ ~nonEmptyString(body[PatchFields[k]])}
    IN  IF bad = {} THEN "null"
        ELSE PatchFields[CHOOSE k \in bad : \A j \in bad : k <= j]

\* const update = {} with the supplied fields, trimmed (lines 294-311).
PatchUpdate(body) ==
    LET given == {k \in 1..Len(PatchFields) : In(body, PatchFields[k])}
    IN  [f \in {PatchFields[k] : k \in given} |-> Trim(body[f].v)]

\* Variant: an update with no field is sent to the store all the same.
PatchIsEmpty_Never(update) == FALSE

\* Object.keys(update).length === 0
PatchIsEmpty(update) == DOMAIN update = {}

PatchDetail(id, body) ==
    LET req == Request("PATCH", <<"phones", id>>, EmptyObject, body)
        error == PatchError(body)
        update == PatchUpdate(body)
    IN  /\ response = Idle
        /\ IF ~isValidObjectId(id)
           THEN /\ response' = Reply(req, 400, ErrorBody("Invalid id format"))
                /\ UNCHANGED <<store, submitted>>
           ELSE IF error # "null"
           THEN /\ response' = Reply(req, 400, ErrorBody(error \o " must be non-empty string"))
                /\ UNCHANGED <<store, submitted>>
           ELSE IF PatchIsEmpty(update)
           THEN /\ response' = Reply(req, 400, ErrorBody("No valid fields to patch"))
                /\ UNCHANGED <<store, submitted>>
           ELSE IF FindById(store, id) = {}
           THEN /\ response' = Reply(req, 404, ErrorBody("Phone not found"))
                /\ UNCHANGED <<store, submitted>>
           ELSE /\ store' = FindByIdAndUpdate(store, id, update @@ ("date" :> now))
                /\ response' =
                      Reply(req, 200,
                            DetailBody(req, CHOOSE d \in FindById(store', id) : TRUE))
                /\ submitted' = Forget(submitted, id)
        /\ seed' = Disturbed(store, store')
        /\ UNCHANGED <<nextId, now, deleted>>
        /\ UNCHANGED aux

(***************************************************************************)
(* PUT and PATCH served concurrently.  A handler that has passed its       *)
(* checks builds its update, `date: new Date()` included, and awaits       *)
(* Phone.findByIdAndUpdate (lines 258-269, 317-319); the store applies the *)
(* updates it has been sent one at a time, in an order of its own, and the *)
(* handler answers when its update has been applied.                       *)
(***************************************************************************)
MaxUpdates == 2     \* updates issued in one behaviour

\* The updates issued so far.
Issued == Cardinality(pending) + Len(done)

\* An update on its way to the store.  `seen` is history: the record as it
\* was when the handler ran.
UpdateOp(method, id, update) ==
    [method |-> method, id |-> id, update |-> update, n |-> Issued + 1,
     seen |-> FindById(store, id)]

\* The first half of the PUT handler: checks passed, update sent.
PutIssue(id, body) ==
    /\ Issued < MaxUpdates
    /\ isValidObjectId(id)
    /\ validateFullBody(body) = "null"
    /\ pending' = pending \cup {UpdateOp("PUT", id, PutUpdate(body, now))}
    /\ UNCHANGED <<store, nextId, now, response, seed, deleted, submitted>>
    /\ UNCHANGED <<wire, done, storeUp>>

\* The first half of the PATCH handler: checks passed, update sent.
PatchIssue(id, body) ==
    /\ Issued < MaxUpdates
    /\ isValidObjectId(id)
    /\ PatchError(body) = "null"
    /\ ~PatchIsEmpty(PatchUpdate(body))
    /\ pending' = pending \cup
                     {UpdateOp("PATCH", id, PatchUpdate(body) @@ ("date" :> now))}
    /\ UNCHANGED <<store, nextId, now, response, seed, deleted, submitted>>
    /\ UNCHANGED <<wire, done, storeUp>>

\* Variant: the handler writes back the whole record it has read.
Applied_Save(st, op) ==
    [k \in 1..Len(st) |->
        IF st[k].id = op.id
        THEN ApplyUpdate(CHOOSE d \in op.seen \cup {st[k]} : d \in op.seen \/ op.seen = {},
                         op.update)
        ELSE st[k]]

\* The store with the update applied: one atomic update of one document.
Applied(st, op) == FindByIdAndUpdate(st, op.id, op.update)

\* The store applies an update and the handler answers: 404 when there is
\* no such record, 200 with the updated record otherwise.
UpdateApply(op) ==
    /\ op \in pending
    /\ pending' = pending \ {op}
    /\ store' = IF FindById(store, op.id) = {} THEN store ELSE Applied(store, op)
    /\ done' = Append(done,
                      [op |-> op,
                       status |-> IF FindById(store, op.id) = {} THEN 404 ELSE 200,
                       before |-> FindById(store, op.id),
                       updated |-> FindById(store', op.id),
                       issued |-> Issued])
    /\ submitted' = IF FindById(store, op.id) = {} THEN submitted
                    ELSE Forget(submitted, op.id)
    /\ seed' = Disturbed(store, store')
    /\ UNCHANGED <<nextId, now, response, deleted, wire, storeUp>>

(***************************************************************************)
(* POST /phones/seed  (src/routes/phones.js 180-197): deleteMany, then one *)
(* create per loop round, then 201.  Every await is a step of its own, so  *)
(* other requests can be served in between.                                *)
(***************************************************************************)
MaxSeeds == 1       \* seed requests in one behaviour

SeedFloor == 5
SeedDefault == 10

FakerProductNames == {<<"f">>}
FakerCompanyNames == {<<"g">>}
FakerParagraphs == {<<"h">>}

NoSeed(runs) ==
    [pc |-> "idle", amount |-> Undefined, safeAmount |-> 0, i |-> 0, runs |-> runs,
     removed |-> 0,         \* history: the records deleteMany has removed
     disturbed |-> FALSE]

\* parseInt(amountRaw, 10) of a JSON value.
ParseAmount(x) ==
    CASE x.t = "number" -> parseInt(NumberToString(x.v))
      [] x.t = "string" -> parseInt(x.v)
      [] OTHER -> NaN

\* Variant: the amount asked for is taken as it is.
SafeAmount_NoFloor(amountRaw) ==
    LET parsed == ParseAmount(amountRaw)
    IN  IF ~IsNaN(parsed) THEN parsed ELSE SeedDefault

\* Number.isFinite(parsed) ? Math.max(parsed, 5) : 10
SafeAmount(amountRaw) ==
    LET parsed == ParseAmount(amountRaw)
    IN  IF ~IsNaN(parsed) THEN MathMax(parsed, SeedFloor) ELSE SeedDefault

SeedStart(amount) ==
    /\ seed.pc = "idle"
    /\ seed.runs < MaxSeeds
    /\ seed' = [seed EXCEPT !.pc = "deleteMany", !.amount = amount,
                            !.runs = @ + 1]
    /\ UNCHANGED <<store, nextId, now, response, deleted, submitted>>
    /\ UNCHANGED aux

\* Variant: deleteMany leaves the collection as it is.
SeedDeleteMany_Keep ==
    /\ seed.pc = "deleteMany"
    /\ store' = store
    /\ seed' = [seed EXCEPT !.pc = "create", !.safeAmount = SafeAmount(seed.amount),
                            !.i = 0, !.removed = Len(store)]
    /\ submitted' = [k \in {} |-> Undefined]
    /\ UNCHANGED <<nextId, now, response, deleted>>
    /\ UNCHANGED aux

\* await Phone.deleteMany({}), then the amount is worked out.
SeedDeleteMany ==
    /\ seed.pc = "deleteMany"
    /\ store' = <<>>
    /\ seed' = [seed EXCEPT !.pc = "create", !.safeAmount = SafeAmount(seed.amount),
                            !.i = 0, !.removed = Len(store)]
    /\ submitted' = [k \in {} |-> Undefined]
    /\ UNCHANGED <<nextId, now, response, deleted>>
    /\ UNCHANGED aux

SeededPhone(id, title, brand, description, url, clock) ==
    [id |-> id, title |-> title, brand |-> brand, description |-> description,
     imageUrl |-> url, reviews |-> Undefined, hasBookmark |-> FALSE,
     date |-> clock]

\* One round of the loop: await Phone.create({...}).
SeedCreate ==
    /\ seed.pc = "create"
    /\ seed.i < seed.safeAmount
    /\ \E title \in FakerProductNames, brand \in FakerCompanyNames,
          description \in FakerParagraphs, url \in FakerImageUrls :
          store' = Append(store,
                          SeededPhone(nextId + 1, title, brand, description, url, now))
    /\ nextId' = nextId + 1
    /\ seed' = [seed EXCEPT !.i = @ + 1]
    /\ UNCHANGED <<now, response, deleted, submitted>>
    /\ UNCHANGED aux

\* return res.sendStatus(201)
SeedRespond ==
    /\ seed.pc = "create"
    /\ seed.i = seed.safeAmount
    /\ seed' = [seed EXCEPT !.pc = "sent"]
    /\ UNCHANGED <<store, nextId, now, response, deleted, submitted>>
    /\ UNCHANGED aux

\* The client takes the 201 of the seed.
SeedReceive ==
    /\ seed.pc = "sent"
    /\ seed' = NoSeed(seed.runs)
    /\ UNCHANGED <<store, nextId, now, response, deleted, submitted>>
    /\ UNCHANGED aux

(***************************************************************************)
(* GET /phones as an action: read-only.                                    *)
(***************************************************************************)
GetCollection(query) ==
    LET req == Request("GET", <<"phones">>, query, EmptyObject)
    IN  /\ response = Idle
        /\ response' \in GetCollectionResponses(store, req)
        /\ UNCHANGED <<store, nextId, now, seed, deleted, submitted>>
        /\ UNCHANGED aux

\* The client takes the response; the next request can be served.
Receive ==
    /\ response # Idle
    /\ response' = Idle
    /\ UNCHANGED <<store, nextId, now, seed, deleted, submitted>>
    /\ UNCHANGED aux

\* The wall clock advances.
Tick ==
    /\ now < MaxClock
    /\ now' = now + 1
    /\ UNCHANGED <<store, nextId, response, seed, deleted, submitted>>
    /\ UNCHANGED aux

(***************************************************************************)
(* The handlers while the store rejects every call (connection lost, time  *)
(* out).  GET, PUT, PATCH and DELETE /phones/:id run in a try whose catch  *)
(* answers 400 "Invalid id format" (lines 241-243, 280-282, 329-331,       *)
(* 347-349); GET /phones and POST /phones have no try (lines 49-175).      *)
(***************************************************************************)
StoreFails ==
    /\ storeUp
    /\ storeUp' = FALSE
    /\ UNCHANGED <<store, nextId, now, response, seed, deleted, submitted>>
    /\ UNCHANGED <<wire, pending, done>>

StoreRecovers ==
    /\ ~storeUp
    /\ storeUp' = TRUE
    /\ UNCHANGED <<store, nextId, now, response, seed, deleted, submitted>>
    /\ UNCHANGED <<wire, pending, done>>

\* catch { return res.status(400).json({ error: "Invalid id format" }) }
Caught(req) == Reply(req, 400, ErrorBody("Invalid id format"))

\* Phone.find / Phone.countDocuments rejects.
GetCollectionFailed(query) ==
    LET req == Request("GET", <<"phones">>, query, EmptyObject)
    IN  /\ ~storeUp
        /\ response = Idle
        /\ response' = Unhandled(req)
        /\ UNCHANGED <<store, nextId, now, seed, deleted, submitted>>
        /\ UNCHANGED aux

\* Phone.create rejects.
PostCreateFailed(body) ==
    LET req == Request("POST", <<"phones">>, EmptyObject, body)
        error == validateFullBody(body)
    IN  /\ ~storeUp
        /\ response = Idle
        /\ response' = IF error # "null" THEN Reply(req, 400, ErrorBody(error))
                       ELSE Unhandled(req)
        /\ UNCHANGED <<store, nextId, now, seed, deleted, submitted>>
        /\ UNCHANGED aux

\* Phone.findById rejects.
GetDetailFailed(id, ims) ==
    LET req == [Request("GET", <<"phones", id>>, EmptyObject, EmptyObject)
                   EXCEPT !.headers = ("if-modified-since" :> ims)]
    IN  /\ ~storeUp
        /\ response = Idle
        /\ response' = IF ~isValidObjectId(id)
                       THEN Reply(req, 400, ErrorBody("Invalid id format"))
                       ELSE Caught(req)
        /\ UNCHANGED <<store, nextId, now, seed, deleted, submitted>>
        /\ UNCHANGED aux

\* Phone.findByIdAndUpdate rejects.
PutDetailFailed(id, body) ==
    LET req == Request("PUT", <<"phones", id>>, EmptyObject, body)
        error == validateFullBody(body)
    IN  /\ ~storeUp
        /\ response = Idle
        /\ response' = IF ~isValidObjectId(id)
                       THEN Reply(req, 400, ErrorBody("Invalid id format"))
                       ELSE IF error # "null"
                       THEN Reply(req, 400, ErrorBody(error))
                       ELSE Caught(req)
        /\ UNCHANGED <<store, nextId, now, seed, deleted, submitted>>
        /\ UNCHANGED aux

PatchDetailFailed(id, body) ==
    LET req == Request("PATCH", <<"phones", id>>, EmptyObject, body)
        error == PatchError(body)
    IN  /\ ~storeUp
        /\ response = Idle
        /\ response' = IF ~isValidObjectId(id)
                       THEN Reply(req, 400, ErrorBody("Invalid id format"))
                       ELSE IF error # "null"
                       THEN Reply(req, 400, ErrorBody(error \o " must be non-empty string"))
                       ELSE IF PatchIsEmpty(PatchUpdate(body))
                       THEN Reply(req, 400, ErrorBody("No valid fields to patch"))
                       ELSE Caught(req)
        /\ UNCHANGED <<store, nextId, now, seed, deleted, submitted>>
        /\ UNCHANGED aux

\* Phone.findByIdAndDelete rejects.
DeleteDetailFailed(id) ==
    LET req == Request("DELETE", <<"phones", id>>, EmptyObject, EmptyObject)
    IN  /\ ~storeUp
        /\ response = Idle
        /\ response' = IF ~isValidObjectId(id)
                       THEN Reply(req, 400, ErrorBody("Invalid id format"))
                       ELSE Caught(req)
        /\ UNCHANGED <<store, nextId, now, seed, deleted, submitted>>
        /\ UNCHANGED aux

(***************************************************************************)
(* Inputs.                                                                 *)
(***************************************************************************)
QValues == {Undefined, Str(<<"B", " ">>), Str(<<".">>)}

BrandValues ==
    {Undefined, Str(<<"A">>), Str(<<"a", ".", "b">>), Str(<<" ", "a", " ", "b">>)}

PageValues ==
    {Undefined, Str(<<"0">>), Str(<<"2">>), Str(<<"3">>), Str(<<"x">>)}

LimitValues ==
    {Undefined, Str(<<>>), Str(<<"-", "1">>), Str(<<"2">>), Str(<<"x">>)}

CollectionQueries ==
    [q : QValues, brand : BrandValues, page : PageValues, limit : LimitValues]

\* A JSON body with the three required fields and no optional one.
Body(title, brand, description) ==
    [title |-> title, brand |-> brand, description |-> description,
     imageUrl |-> Undefined, reviews |-> Undefined]

CreateBodies ==
    {Body(Str(<<"a">>), Str(<<"a">>), Str(<<"b">>)),
     Body(Str(<<"a">>), Str(<<"a">>), Str(<<".">>)),
     Body(Str(<<"A", "b", " ">>), Str(<<"a">>), Str(<<".">>)),
     Body(Str(<<"a">>), Str(<<" ", "a", " ", "b">>), Str(<<".">>)),
     Body(Undefined, Str(<<"a">>), Str(<<"b">>)),
     Body(Num(1), Str(<<"a">>), Str(<<"b">>)),
     Body(Str(<<"a">>), Str(<<" ">>), Str(<<"b">>)),
     Body(Str(<<"a">>), Str(<<"a">>), Undefined)}

IdParams == {BadId} \cup (1..MaxIds)

\* The :id of PUT and PATCH: none, or that of one of the first two records.
WriteIds == {BadId, 1, 2}

\* Bodies of POST /phones for the write endpoints: one valid, with white
\* space around a value, and one with a blank required field.
WriteCreateBodies ==
    {Body(Str(<<"A", "b", " ">>), Str(<<"a">>), Str(<<".">>)),
     Body(Str(<<"a">>), Str(<<" ">>), Str(<<"b">>))}

\* Bodies of PUT: reviews without imageUrl, imageUrl without reviews, and a
\* body with a blank required field.
PutBodies ==
    {[Body(Str(<<" ", "b">>), Str(<<"a">>), Str(<<"b">>)) EXCEPT !.reviews = Str(<<"r", " ">>)],
     [Body(Str(<<" ", "b">>), Str(<<"a">>), Str(<<"b">>)) EXCEPT !.imageUrl = Str(<<"v">>)],
     Body(Str(<<"b">>), Str(<<" ">>), Str(<<"b">>))}

\* A PATCH body that supplies no field; a field that is undefined is absent.
NoFields ==
    [title |-> Undefined, brand |-> Undefined, description |-> Undefined,
     imageUrl |-> Undefined, reviews |-> Undefined, hasBookmark |-> Undefined]

PatchBodies ==
    {NoFields,
     [NoFields EXCEPT !.title = Str(<<" ", "c">>)],
     [NoFields EXCEPT !.hasBookmark = Bool(TRUE)],
     [NoFields EXCEPT !.reviews = Str(<<"r">>)],
     [NoFields EXCEPT !.title = Str(<<"c">>), !.hasBookmark = Str(<<"x">>)],
     [NoFields EXCEPT !.brand = Str(<<" ">>)]}

\* If-Modified-Since headers: none.
NoIms == {Undefined}

\* The bodies of the write endpoints while a seed may be running: for each
\* of PUT and PATCH one that is accepted and one that is rejected.
LifePutBodies ==
    {[Body(Str(<<" ", "b">>), Str(<<"a">>), Str(<<"b">>)) EXCEPT !.reviews = Str(<<"r", " ">>)],
     Body(Str(<<"b">>), Str(<<" ">>), Str(<<"b">>))}

LifePatchBodies ==
    {[NoFields EXCEPT !.title = Str(<<" ", "c">>)],
     [NoFields EXCEPT !.brand = Str(<<" ">>)]}

\* Seeding: amounts below and above the floor and none; GET /phones without
\* parameters.
SeedAmounts == {Undefined, Num(3), Num(6)}
NoParams == [q |-> Undefined, brand |-> Undefined, page |-> Undefined,
             limit |-> Undefined]

\* If-Modified-Since headers: none, one that is no date, and every instant
\* of the clock.
ImsValues == {Undefined, Str(<<"x">>)} \cup {DateString(t) : t \in 0..MaxClock}

\* Concurrent updates: the id of the first record, one body for POST and
\* for PUT, and two PATCH bodies with no field in common.
ConcurrentIds == {1}

ConcurrentCreateBodies ==
    {[Body(Str(<<"a">>), Str(<<"a">>), Str(<<"b">>)) EXCEPT !.reviews = Str(<<"r">>)]}

ConcurrentPutBodies == {Body(Str(<<"b">>), Str(<<"a">>), Str(<<"b">>))}

ConcurrentPatchBodies ==
    {[NoFields EXCEPT !.title = Str(<<"c">>)],
     [NoFields EXCEPT !.brand = Str(<<"d">>)]}

\* Bodies of POST /phones/seed: { amount: 3 }.
LifeSeedAmounts == {Num(3)}

(***************************************************************************)
(* Specifications.                                                         *)
(***************************************************************************)
Init ==
    /\ store = <<>>
    /\ nextId = 0
    /\ now = 0
    /\ response = Idle
    /\ seed = NoSeed(0)
    /\ deleted = {}
    /\ submitted = [k \in {} |-> Undefined]
    /\ wire = NoWire
    /\ pending = {}
    /\ done = <<>>
    /\ storeUp = TRUE

(***************************************************************************)
(* The middleware chain  (src/index.js 20-48): acceptJsonOnly,             *)
(* methodOverride, express.json, requireJsonBody, then the /phones router. *)
(* A header value is a string cut into words: a media type, a parameter,   *)
(* a verb; the string is their concatenation.                              *)
(***************************************************************************)
\* String.prototype.toLowerCase, word by word.
toLowerCase(s) ==
    [i \in 1..Len(s) |-> CASE s[i] = "Application/JSON" -> "application/json"
                            [] OTHER -> s[i]]

\* String.prototype.toUpperCase, word by word.
toUpperCase(s) ==
    [i \in 1..Len(s) |-> CASE s[i] = "put" -> "PUT"
                            [] s[i] = "patch" -> "PATCH"
                            [] s[i] = "delete" -> "DELETE"
                            [] OTHER -> s[i]]

\* String.prototype.includes for a word of the string.
includes(s, word) == \E i \in 1..Len(s) : s[i] = word

\* (req.headers[name] || "")
HeaderOrEmpty(h) == OrElse(h, Str(<<>>)).v

\* acceptJsonOnly calls next().
acceptJsonOnly(w) ==
    \/ w.method = "OPTIONS"
    \/ LET acceptHeader == toLowerCase(HeaderOrEmpty(w.accept))
       IN  includes(acceptHeader, "application/json") \/ includes(acceptHeader, "*/*")

\* Variant: the override is compared as it was sent.
methodOverride_CaseSensitive(w) ==
    IF w.method # "POST" THEN w.method
    ELSE LET hdr == HeaderOrEmpty(w.override)
             qry == HeaderOrEmpty(w._method)
             override == IF hdr # <<>> THEN hdr ELSE qry
         IN  IF override \in {<<"PATCH">>, <<"PUT">>, <<"DELETE">>}
             THEN override[1] ELSE w.method

\* req.method when methodOverride has called next().
methodOverride(w) ==
    IF w.method # "POST" THEN w.method
    ELSE LET hdr == toUpperCase(HeaderOrEmpty(w.override))
             qry == toUpperCase(HeaderOrEmpty(w._method))
             override == IF hdr # <<>> THEN hdr ELSE qry
         IN  IF override \in {<<"PATCH">>, <<"PUT">>, <<"DELETE">>}
             THEN override[1] ELSE w.method

\* express.json(): a body is parsed when the media type of the request is
\* application/json, whatever its parameters; otherwise req.body is empty.
ParsedBody(w) ==
    LET ct == toLowerCase(HeaderOrEmpty(w.contentType))
    IN  IF /\ Len(ct) >= 1
           /\ ct[1] = "application/json"
           /\ (Len(ct) >= 2 => ct[2] = "; charset=utf-8")
        THEN w.body ELSE NoFields

\* requireJsonBody calls next() for the method m the request now has.
requireJsonBody(m, w) ==
    LET needs == m = "POST" \/ m = "PUT" \/ m = "PATCH"
        ct == toLowerCase(HeaderOrEmpty(w.contentType))
    IN  ~needs \/ includes(ct, "application/json") \/ includes(ct, "multipart/form-data")

\* res.status(n).send(text)
TextBody(text) == [text |-> text]

\* router.options: 204 and the Allow header of the path.
OptionsReply(req) ==
    [Reply(req, 204, EmptyObject)
        EXCEPT !.headers = ("Allow" :> IF Len(req.path) = 1 THEN "GET, POST, OPTIONS"
                                       ELSE "GET, PUT, PATCH, DELETE, OPTIONS")]

\* A response that no handler changes the store for.
Answer(reply) ==
    /\ response = Idle
    /\ response' = reply
    /\ UNCHANGED <<store, nextId, now, seed, deleted, submitted>>
    /\ UNCHANGED aux

\* PATCH of a body express.json() has not parsed: `"title" in req.body`
\* finds no field in {} (Express 4) or throws on undefined into the catch
\* (Express 5).
PatchUnparsed(req) ==
    \/ Answer(Reply(req, 400, ErrorBody("No valid fields to patch")))
    \/ Answer(Caught(req))

\* The route of the /phones router the request matches; none: the 404 of
\* the framework.
Route(m, w) ==
    LET body == ParsedBody(w)
        req == Request(m, w.path, EmptyObject, body)
    IN  CASE m = "OPTIONS" -> Answer(OptionsReply(req))
          [] m = "GET" /\ Len(w.path) = 1 -> GetCollection(NoParams)
          [] m = "POST" /\ Len(w.path) = 1 -> PostCreate(body)
          [] m = "GET" /\ Len(w.path) = 2 -> GetDetail(w.path[2], Undefined)
          [] m = "PUT" /\ Len(w.path) = 2 -> PutDetail(w.path[2], body)
          [] m = "PATCH" /\ Len(w.path) = 2 ->
                IF body = NoFields /\ isValidObjectId(w.path[2])
                THEN PatchUnparsed(req) ELSE PatchDetail(w.path[2], body)
          [] m = "DELETE" /\ Len(w.path) = 2 -> DeleteDetail(w.path[2])
          [] OTHER -> Answer(Reply(req, 404, EmptyObject))

\* One request through the chain.
Serve(w) ==
    LET m == methodOverride(w)
    IN  IF ~acceptJsonOnly(w)
        THEN Answer(Reply(Request(w.method, w.path, EmptyObject, EmptyObject), 406,
                          TextBody("Not Acceptable: Only application/json is supported")))
        ELSE IF ~requireJsonBody(m, w)
        THEN Answer(Reply(Request(m, w.path, EmptyObject, EmptyObject), 415,
                          TextBody("Unsupported Media Type: use application/json")))
        ELSE Route(m, w)

\* A request reaches the server.
Arrive(raw) ==
    /\ response = Idle
    /\ wire = NoWire
    /\ wire' = raw
    /\ UNCHANGED <<store, nextId, now, response, seed, deleted, submitted>>
    /\ UNCHANGED <<pending, done, storeUp>>

\* The server serves the request that has reached it.
Dispatch ==
    /\ wire # NoWire
    /\ Serve(wire)

\* The client takes the response to the request it sent.
Deliver ==
    /\ wire # NoWire
    /\ response # Idle
    /\ response' = Idle
    /\ wire' = NoWire
    /\ UNCHANGED <<store, nextId, now, seed, deleted, submitted>>
    /\ UNCHANGED <<pending, done, storeUp>>

\* Requests as they reach the middleware chain.
Raw(method, path, accept, contentType, override, qry, body) ==
    [method |-> method, path |-> path, accept |-> accept,
     contentType |-> contentType, override |-> override, _method |-> qry,
     body |-> body]

Methods == {"GET", "POST", "PUT", "PATCH", "DELETE", "OPTIONS"}
Paths == {<<"phones">>, <<"phones", 1>>}
AcceptValues ==
    {Undefined, Str(<<"text/html">>), Str(<<"application/json">>),
     Str(<<"Application/JSON">>), Str(<<"text/html", ",", "*/*">>),
     Str(<<"application/json", ";q=0">>)}
ContentTypes ==
    {Undefined, Str(<<"text/plain">>), Str(<<"Application/JSON", "; charset=utf-8">>),
     Str(<<"multipart/form-data", "; boundary=x">>),
     Str(<<"application/json", "-patch+json">>)}
OverrideHeaders == {Undefined, Str(<<"put">>), Str(<<"DELETE">>), Str(<<"GET">>)}
MethodQueries == {Undefined, Str(<<"patch">>), Str(<<"PUT">>)}
PipeBodies ==
    ConcurrentCreateBodies \cup {Body(Str(<<"c">>), Str(<<"d">>), Str(<<"b">>))}

RawRequests ==
    {Raw(m, p, a, Str(<<"application/json">>), Undefined, Undefined, b) :
        m \in Methods, p \in Paths, a \in AcceptValues, b \in ConcurrentCreateBodies}
    \cup {Raw(m, p, Str(<<"application/json">>), ct, Undefined, Undefined, b) :
        m \in Methods, p \in Paths, ct \in ContentTypes, b \in PipeBodies}
    \cup {Raw(m, p, Str(<<"application/json">>), ct, h, q, b) :
        m \in {"POST", "GET", "PUT"}, p \in Paths,
        ct \in {Str(<<"application/json">>), Str(<<"text/plain">>)},
        h \in OverrideHeaders, q \in MethodQueries, b \in PipeBodies}

\* The collection endpoint over every store create and delete can build.
NextQuery ==
    \/ \E query \in CollectionQueries : GetCollection(query)
    \/ \E body \in CreateBodies : PostCreate(body)
    \/ \E id \in IdParams : DeleteDetail(id)
    \/ Receive

SpecQuery == Init /\ [][NextQuery]_vars

\* The write endpoints of one record, with the clock running.
NextWrite ==
    \/ \E body \in WriteCreateBodies : PostCreate(body)
    \/ \E id \in IdParams, ims \in NoIms : GetDetail(id, ims)
    \/ \E id \in WriteIds, body \in PutBodies : PutDetail(id, body)
    \/ \E id \in WriteIds, body \in PatchBodies : PatchDetail(id, body)
    \/ \E id \in IdParams : DeleteDetail(id)
    \/ Receive
    \/ Tick

SpecWrite == Init /\ [][NextWrite]_vars

\* Every request that writes, the steps of a seed interleaved with the others.
NextLife ==
    \/ \E body \in WriteCreateBodies : PostCreate(body)
    \/ \E amount \in LifeSeedAmounts : SeedStart(amount)
    \/ SeedDeleteMany
    \/ SeedCreate
    \/ SeedRespond
    \/ SeedReceive
    \/ \E id \in WriteIds, body \in LifePutBodies : PutDetail(id, body)
    \/ \E id \in WriteIds, body \in LifePatchBodies : PatchDetail(id, body)
    \/ \E id \in IdParams : DeleteDetail(id)
    \/ \E id \in IdParams, ims \in NoIms : GetDetail(id, ims)
    \/ Receive

SpecLife == Init /\ [][NextLife]_vars

\* Requests that pass through the middleware chain.
NextPipe ==
    \/ \E raw \in RawRequests : Arrive(raw)
    \/ Dispatch
    \/ Deliver

SpecPipe == Init /\ [][NextPipe]_vars

\* Requests served by a store that fails and recovers.
NextFault ==
    \/ StoreFails
    \/ StoreRecovers
    \/ storeUp /\ \E body \in ConcurrentCreateBodies : PostCreate(body)
    \/ storeUp /\ \E id \in IdParams, ims \in NoIms : GetDetail(id, ims)
    \/ storeUp /\ \E id \in IdParams : DeleteDetail(id)
    \/ GetCollectionFailed(NoParams)
    \/ \E body \in WriteCreateBodies : PostCreateFailed(body)
    \/ \E id \in IdParams, ims \in NoIms : GetDetailFailed(id, ims)
    \/ \E id \in WriteIds, body \in LifePutBodies : PutDetailFailed(id, body)
    \/ \E id \in WriteIds, body \in LifePatchBodies : PatchDetailFailed(id, body)
    \/ \E id \in IdParams : DeleteDetailFailed(id)
    \/ Receive

SpecFault == Init /\ [][NextFault]_vars

\* A seed, with reads of the collection and other writes in between its steps.
NextSeed ==
    \/ \E body \in ConcurrentCreateBodies : PostCreate(body)
    \/ \E amount \in SeedAmounts : SeedStart(amount)
    \/ SeedDeleteMany
    \/ SeedCreate
    \/ SeedRespond
    \/ SeedReceive
    \/ GetCollection(NoParams)
    \/ \E id \in IdParams : DeleteDetail(id)
    \/ Receive

SpecSeed == Init /\ [][NextSeed]_vars

\* Conditional reads of records created and replaced at various instants.
NextCache ==
    \/ \E body \in ConcurrentCreateBodies : PostCreate(body)
    \/ \E id \in ConcurrentIds, body \in ConcurrentPutBodies : PutDetail(id, body)
    \/ \E id \in IdParams, ims \in ImsValues : GetDetail(id, ims)
    \/ Receive
    \/ Tick

SpecCache == Init /\ [][NextCache]_vars

\* PUT and PATCH requests on one record that overlap, with the clock running.
NextConcurrent ==
    \/ \E body \in ConcurrentCreateBodies : PostCreate(body)
    \/ \E id \in ConcurrentIds, body \in ConcurrentPutBodies : PutIssue(id, body)
    \/ \E id \in ConcurrentIds, body \in ConcurrentPatchBodies : PatchIssue(id, body)
    \/ \E op \in pending : UpdateApply(op)
    \/ Tick

SpecConcurrent == Init /\ [][NextConcurrent]_vars

Next ==
    \/ NextPipe
    \/ NextFault
    \/ NextSeed
    \/ NextCache
    \/ NextConcurrent
    \/ NextQuery
    \/ NextWrite
    \/ NextLife

Spec == Init /\ [][Next]_vars

(***************************************************************************)
(* Vocabulary of the properties.                                           *)
(***************************************************************************)
IsCollectionGet ==
    response.req.method = "GET" /\ response.req.path = <<"phones">>

\* The request carries a `limit` parameter (an empty one counts as none).
LimitGiven == response.req.query.limit \notin {Undefined, Str(<<>>)}

\* A GET /phones that asked for pagination.
Paged == IsCollectionGet /\ LimitGiven

\* A GET /phones that did not.
Unpaged == IsCollectionGet /\ ~LimitGiven

PositiveInteger(n) == n \in Nat /\ n >= 1

\* The q and brand the request carries, white space around them removed.
GivenQ == QueryQ(response.req)
GivenBrand == QueryBrand(response.req)

\* a equals b ignoring letter case.
EqualsIgnoreCase(a, b) ==
    /\ Len(a) = Len(b)
    /\ \A i \in 1..Len(a) : ToLower(a[i]) = ToLower(b[i])

\* s contains sub as a substring ignoring letter case.
ContainsIgnoreCase(s, sub) ==
    \E j \in 0..(Len(s) - Len(sub)) :
        \A i \in 1..Len(sub) : ToLower(s[j + i]) = ToLower(sub[i])

\* The stored document an item of a response stands for.
DocOf(item) == store[CHOOSE k \in 1..Len(store) : store[k].id = item.id]

\* The documents of the store that the q/brand filter of the request selects.
Matching == Find(store, BuildFilter(GivenQ, GivenBrand))

\* max(ceil(total / limit), 1) for a positive limit, by its defining property.
LastPage(total, limit) ==
    CHOOSE n \in 1..(total + 1) :
        /\ n * limit >= total
        /\ (n > 1 => (n - 1) * limit < total)

\* The same request for page p.
ForPage(req, p) == [req EXCEPT !.query.page = Str(NumberToString(p))]

\* The items GET /phones returns for page p of the request on this store.
ItemsOfPage(req, p) ==
    (CHOOSE r \in GetCollectionResponses(store, ForPage(req, p)) : TRUE).body.items

RECURSIVE ConcatPages(_, _)
ConcatPages(req, n) ==
    IF n = 0 THEN <<>> ELSE ConcatPages(req, n - 1) \o ItemsOfPage(req, n)

RECURSIVE SumPages(_, _)
SumPages(req, n) ==
    IF n = 0 THEN 0 ELSE SumPages(req, n - 1) + Len(ItemsOfPage(req, n))

(***************************************************************************)
(* C1.  With `limit` present the response always carries a pagination      *)
(* object: page and limit are the effective page and page size, total is   *)
(* the number of records the q/brand filter matches, and the page count is *)
(* max(ceil(total / limit), 1).                                            *)
(***************************************************************************)
C1_PaginationObject ==
    Paged =>
        /\ response.status = 200
        /\ "pagination" \in DOMAIN response.body
        /\ LET pg == response.body.pagination
           IN  /\ pg.page = PageOf(response.req)
               /\ pg.limit = LimitOf(response.req)
               /\ pg.total = Len(Matching)
               /\ PositiveInteger(pg.page)
               /\ PositiveInteger(pg.limit)
               /\ pg.pages = LastPage(pg.total, pg.limit)
        /\ (Matching = <<>> =>
                response.body.items = <<>> /\ response.body.pagination.pages = 1)

(***************************************************************************)
(* C2.  With `limit` present the effective page and the effective limit    *)
(* are positive integers for every raw input: an absent page is 1, and the *)
(* pagination object reports these values.                                 *)
(***************************************************************************)
C2_ClampedPositive ==
    Paged =>
        /\ PositiveInteger(PageOf(response.req))
        /\ PositiveInteger(LimitOf(response.req))
        /\ (response.req.query.page = Undefined => PageOf(response.req) = 1)
        /\ response.status = 200
        /\ response.body.pagination.page = PageOf(response.req)
        /\ response.body.pagination.limit = LimitOf(response.req)

(***************************************************************************)
(* C3.  Pagination invariant: for a fixed store and filter and a limit     *)
(* l >= 1, every page has at most l items, the item counts of the pages    *)
(* 1..pages add up to pagination.total, and the pages in order list every  *)
(* matching record exactly once.                                           *)
(***************************************************************************)
C3_PagesPartition ==
    (/\ Paged
     /\ response.status = 200
     /\ PositiveInteger(PageOf(response.req))
     /\ PositiveInteger(LimitOf(response.req)))
    => LET pg == response.body.pagination
       IN  /\ Len(response.body.items) <= pg.limit
           /\ \A p \in 1..pg.pages : Len(ItemsOfPage(response.req, p)) <= pg.limit
           /\ SumPages(response.req, pg.pages) = pg.total
           /\ ConcatPages(response.req, pg.pages) = MapItems(response.req, Matching)
           /\ response.body.items = ItemsOfPage(response.req, pg.page)

C3_Witness ==
    /\ Paged
    /\ response.status = 200
    /\ PositiveInteger(PageOf(response.req))
    /\ PositiveInteger(LimitOf(response.req))
    /\ response.body.pagination.pages >= 2
    /\ response.body.pagination.page = 2
    /\ response.body.items # <<>>

(***************************************************************************)
(* C4.  Without `limit` GET /phones returns every record the q/brand       *)
(* filter matches, whatever `page` says, and no pagination object.         *)
(***************************************************************************)
C4_UnpagedReturnsAll ==
    Unpaged =>
        /\ response.status = 200
        /\ "pagination" \notin DOMAIN response.body
        /\ Len(response.body.items) = Len(Matching)
        /\ \A k \in 1..Len(store) :
              (/\ GivenBrand # <<>> => EqualsIgnoreCase(store[k].brand, GivenBrand)
               /\ GivenQ # <<>> =>
                     \/ ContainsIgnoreCase(store[k].title, GivenQ)
                     \/ ContainsIgnoreCase(store[k].brand, GivenQ)
                     \/ ContainsIgnoreCase(store[k].description, GivenQ))
              => \E i \in 1..Len(response.body.items) :
                     /\ response.body.items[i].id = store[k].id
                     /\ response.body.items[i].title = store[k].title
                     /\ response.body.items[i].brand = store[k].brand

C4_Witness ==
    /\ Unpaged
    /\ response.req.query.page = Str(<<"2">>)
    /\ GivenBrand # <<>>
    /\ Len(store) = 2
    /\ Len(response.body.items) = 1

(***************************************************************************)
(* C5.  With `limit` present and a page beyond the last page the response  *)
(* is a 200 with no items and with the real total and page count, the same *)
(* as page 1 reports.                                                      *)
(***************************************************************************)
C5_BeyondLastPage ==
    (/\ Paged
     /\ PositiveInteger(PageOf(response.req))
     /\ PositiveInteger(LimitOf(response.req))
     /\ PageOf(response.req) > LastPage(Len(Matching), LimitOf(response.req)))
    => /\ response.status = 200
       /\ response.body.items = <<>>
       /\ response.body.pagination.total = Len(Matching)
       /\ response.body.pagination.pages =
              LastPage(Len(Matching), LimitOf(response.req))
       /\ \A r \in GetCollectionResponses(store, ForPage(response.req, 1)) :
              /\ r.body.pagination.total = response.body.pagination.total
              /\ r.body.pagination.pages = response.body.pagination.pages

C5_Witness ==
    /\ Paged
    /\ response.status = 200
    /\ response.body.pagination.page = 3
    /\ response.body.pagination.pages = 2
    /\ response.body.pagination.total = 2
    /\ response.body.items = <<>>

(***************************************************************************)
(* C6.  With a non-empty `brand` X every returned item has a brand equal   *)
(* to X ignoring letter case.                                              *)
(***************************************************************************)
C6_BrandExact ==
    (IsCollectionGet /\ response.status = 200 /\ GivenBrand # <<>>)
    => \A i \in 1..Len(response.body.items) :
           EqualsIgnoreCase(response.body.items[i].brand, GivenBrand)

(***************************************************************************)
(* C7.  With a non-empty `q` every returned item is a record whose title,  *)
(* brand or description contains q ignoring letter case.                   *)
(***************************************************************************)
C7_QSubstring ==
    (IsCollectionGet /\ response.status = 200 /\ GivenQ # <<>>)
    => \A i \in 1..Len(response.body.items) :
           LET d == DocOf(response.body.items[i])
           IN  \/ ContainsIgnoreCase(d.title, GivenQ)
               \/ ContainsIgnoreCase(d.brand, GivenQ)
               \/ ContainsIgnoreCase(d.description, GivenQ)

(***************************************************************************)
(* C8.  The self link carries exactly the query parameters of the request: *)
(* page and limit when pagination is active, q and brand whenever they     *)
(* were supplied, in both branches.                                        *)
(***************************************************************************)
C8_SelfReflectsQuery ==
    (IsCollectionGet /\ response.status = 200)
    => response.body._links.self.href =
          [base |-> Origin, path |-> <<"phones">>,
           query |->
              (IF LimitGiven
               THEN <<Pair("page", NumberToString(PageOf(response.req))),
                      Pair("limit", NumberToString(LimitOf(response.req)))>>
               ELSE <<>>)
              \o (IF GivenQ # <<>>
                  THEN <<Pair("q", encodeURIComponent(GivenQ))>> ELSE <<>>)
              \o (IF GivenBrand # <<>>
                  THEN <<Pair("brand", encodeURIComponent(GivenBrand))>> ELSE <<>>)]

(***************************************************************************)
(* C9.  The collection link of every GET /phones response is the bare      *)
(* endpoint <origin>/phones, with no query string.                         *)
(***************************************************************************)
C9_CollectionBare ==
    (IsCollectionGet /\ response.status = 200)
    => response.body._links.collection.href =
          [base |-> Origin, path |-> <<"phones">>, query |-> <<>>]

(***************************************************************************)
(* C10.  In a paginated response the next link is present exactly when the *)
(* effective page is smaller than the page count and the prev link exactly *)
(* when it is greater than 1; they point to page + 1 and page - 1 with the *)
(* same limit, q and brand.                                                *)
(***************************************************************************)
LinkToPage(p) ==
    [href |->
        [base |-> Origin, path |-> <<"phones">>,
         query |->
            <<Pair("page", NumberToString(p)),
              Pair("limit", NumberToString(response.body.pagination.limit))>>
            \o (IF GivenQ # <<>>
                THEN <<Pair("q", encodeURIComponent(GivenQ))>> ELSE <<>>)
            \o (IF GivenBrand # <<>>
                THEN <<Pair("brand", encodeURIComponent(GivenBrand))>> ELSE <<>>)]]

C10_NextPrev ==
    (Paged /\ response.status = 200)
    => LET pg == response.body.pagination
           links == response.body._links
           smaller == PositiveInteger(pg.page) /\ PositiveInteger(pg.pages)
                      /\ pg.page < pg.pages
           greater == PositiveInteger(pg.page) /\ pg.page > 1
       IN  /\ "next" \in DOMAIN links <=> smaller
           /\ "prev" \in DOMAIN links <=> greater
           /\ smaller => links["next"] = LinkToPage(pg.page + 1)
           /\ greater => links["prev"] = LinkToPage(pg.page - 1)

C10_Witness ==
    /\ Paged
    /\ response.status = 200
    /\ response.body.pagination.page = 2
    /\ response.body.pagination.pages = 2
    /\ "prev" \in DOMAIN response.body._links
    /\ "next" \notin DOMAIN response.body._links
    /\ GivenQ # <<>>

(***************************************************************************)
(* Vocabulary of the claims about single records.                          *)
(***************************************************************************)
\* The response held is that of a request `method` /phones/:id.
IsDetail(method) ==
    /\ response.req.method = method
    /\ Len(response.req.path) = 2

\* The :id of the request answered.
GivenId == response.req.path[2]

\* The record with this id in a store, when there is one.
Stored(st, id) == CHOOSE d \in {st[k] : k \in {j \in 1..Len(st) : st[j].id = id}} : TRUE
Resolves(st, id) == \E k \in 1..Len(st) : st[k].id = id

(***************************************************************************)
(* C11: under every sequence of create, seed, PUT, PATCH and DELETE        *)
(* requests, accepted or rejected, every record in the store has a title,  *)
(* a brand and a description that are non-empty strings.                   *)
(***************************************************************************)
C11_RequiredFieldsNonEmpty ==
    \A k \in 1..Len(store) :
        /\ Len(store[k].title) > 0
        /\ Len(store[k].brand) > 0
        /\ Len(store[k].description) > 0

\* A PATCH with a blank brand has been turned down while the store holds a
\* posted and patched record next to seeded ones.
C11_Witness ==
    /\ IsDetail("PATCH")
    /\ response.status = 400
    /\ response.body.error = "brand must be non-empty string"
    /\ seed.pc = "create"
    /\ seed.i > 0
    /\ \E k \in 1..Len(store) : store[k].title = <<"c">>

(***************************************************************************)
(* C12: POST /phones with a title, a brand and a description that are all  *)
(* non-empty strings inserts exactly one new record and answers 201 with   *)
(* that record, its id included; when one of the three is missing, is no   *)
(* string or is empty or white space only, it answers 400 with an error    *)
(* body and the store is left as it was.                                   *)
(***************************************************************************)
\* A string with a character that is no white space.
Given(x) == x.t = "string" /\ \E i \in 1..Len(x.v) : x.v[i] \notin WhiteSpace

\* This step serves a POST /phones.
PostStep ==
    /\ response = Idle
    /\ response'.req.method = "POST"
    /\ response'.req.path = <<"phones">>

C12_CreateOrReject ==
    [][PostStep =>
        LET body == response'.req.body
            created == store'[Len(store')]
        IN  IF Given(body.title) /\ Given(body.brand) /\ Given(body.description)
            THEN /\ response'.status = 201
                 /\ Len(store') = Len(store) + 1
                 /\ SubSeq(store', 1, Len(store)) = store
                 /\ ~Resolves(store, created.id)
                 /\ \A f \in DOMAIN created : response'.body[f] = created[f]
            ELSE /\ response'.status = 400
                 /\ "error" \in DOMAIN response'.body
                 /\ store' = store]_vars

\* A second record has been created from a body with white space around
\* its title.
C12_Witness ==
    /\ response.req.method = "POST"
    /\ response.status = 201
    /\ Len(store) = 2
    /\ response.body.id = store[2].id
    /\ response.body.title = <<"A", "b">>

(***************************************************************************)
(* C13: POST /phones with a valid body followed, with no write to the      *)
(* record in between, by GET /phones/:id on the returned id yields a       *)
(* record whose title, brand and description equal the submitted values.   *)
(* As stated it fails for a value sent with white space around it.         *)
(***************************************************************************)
\* The response held is a 200 of GET /phones/:id for a record that has not
\* been written since POST /phones created it.
ReadBack ==
    /\ IsDetail("GET")
    /\ response.status = 200
    /\ GivenId \in DOMAIN submitted
    /\ submitted[GivenId].method = "POST"

\* The body that was posted for the record read back.
Posted == submitted[GivenId].body

C13_RoundTrip ==
    ReadBack =>
        /\ response.body.title = Posted.title.v
        /\ response.body.brand = Posted.brand.v
        /\ response.body.description = Posted.description.v

(***************************************************************************)
(* C13, amended: the record read back has the title, brand and description *)
(* that were submitted with their leading and trailing white space removed.*)
(***************************************************************************)
C13_RoundTripTrimmed ==
    ReadBack =>
        /\ response.body.title = Trim(Posted.title.v)
        /\ response.body.brand = Trim(Posted.brand.v)
        /\ response.body.description = Trim(Posted.description.v)

\* A record posted with white space after its title has been read back.
C13_Witness ==
    /\ ReadBack
    /\ Posted.title.v = <<"A", "b", " ">>
    /\ response.body.title = <<"A", "b">>

(***************************************************************************)
(* C14: for every existing record and every valid body, the same PUT       *)
(* /phones/:id issued twice in a row leaves the store, every field of      *)
(* every record but `date` compared, as the first one left it.             *)
(***************************************************************************)
\* A store with the dates of its records blanked.
WithoutDates(st) == [k \in 1..Len(st) |-> [st[k] EXCEPT !.date = 0]]

\* This step serves a request `method` /phones/:id and answers `status`.
DetailStep(method, status) ==
    /\ response = Idle
    /\ response'.req.method = method
    /\ Len(response'.req.path) = 2
    /\ response'.status = status

\* This step is a successful PUT that repeats the last write of its record.
RepeatedPut ==
    /\ DetailStep("PUT", 200)
    /\ response'.req.path[2] \in DOMAIN submitted
    /\ submitted[response'.req.path[2]] =
           [method |-> "PUT", body |-> response'.req.body]

C15_PutFrame ==
    [][DetailStep("PUT", 200) =>
        LET id == response'.req.path[2]
            body == response'.req.body
        IN  /\ Len(store') = Len(store)
            /\ \A k \in 1..Len(store) :
                  /\ store'[k].id = store[k].id
                  /\ store'[k].hasBookmark = store[k].hasBookmark
                  /\ store[k].id # id => store'[k] = store[k]
                  /\ ~Given(body.imageUrl) => store'[k].imageUrl = store[k].imageUrl
                  /\ ~Given(body.reviews) => store'[k].reviews = store[k].reviews]_vars

\* A PUT without reviews has been answered 200 for a record that had
\* reviews, with another record in the store.
C15_Witness ==
    /\ IsDetail("PUT")
    /\ response.status = 200
    /\ response.req.body.reviews = Undefined
    /\ response.body.reviews = Str(<<"r">>)
    /\ response.body.imageUrl = <<"v">>
    /\ Len(store) = 2

(***************************************************************************)
(* Vocabulary of the claims about PATCH: the six mutable fields and their  *)
(* type rules.                                                             *)
(***************************************************************************)
StringFields == {"title", "brand", "description", "imageUrl", "reviews"}
MutableFields == StringFields \cup {"hasBookmark"}

Supplied(body) == {f \in MutableFields : body[f] # Undefined}

\* The type rule of a field: a non-empty string, a strict boolean.
Valid(f, x) == IF f = "hasBookmark" THEN x.t = "boolean" ELSE Given(x)

\* What a record holds for a valid supplied value: strings are kept with
\* the surrounding white space removed.
Held(f, x) ==
    IF f = "hasBookmark" THEN x.v
    ELSE IF f = "reviews" THEN Str(Trim(x.v))
    ELSE Trim(x.v)

\* This step serves a PATCH /phones/:id.
PatchStep == \E status \in {200, 400, 404} : DetailStep("PATCH", status)

(***************************************************************************)
(* C16: PATCH /phones/:id with a body that supplies only valid values for  *)
(* a non-empty subset of title, brand, description, imageUrl, reviews and  *)
(* hasBookmark, on an existing record, answers 200, stores the supplied    *)
(* values and leaves the other fields as they were.  It fails for a body   *)
(* with only hasBookmark or only reviews.                                  *)
(***************************************************************************)
C16_PatchAnySubset ==
    [][(/\ PatchStep
        /\ Resolves(store, response'.req.path[2])
        /\ Supplied(response'.req.body) # {}
        /\ \A f \in Supplied(response'.req.body) : Valid(f, response'.req.body[f]))
       =>
        LET id == response'.req.path[2]
            body == response'.req.body
        IN  /\ response'.status = 200
            /\ Resolves(store', id)
            /\ \A f \in MutableFields :
                  Stored(store', id)[f] =
                     IF f \in Supplied(body) THEN Held(f, body[f])
                     ELSE Stored(store, id)[f]]_vars

(***************************************************************************)
(* C17: PATCH /phones/:id never silently drops an invalid field: when a    *)
(* supplied mutable field fails its type rule the request on an existing   *)
(* record is rejected with a 400 validation error and no field of the      *)
(* stored record changes, even if other supplied fields are valid.  It     *)
(* fails for a valid title sent with a hasBookmark that is no boolean.     *)
(***************************************************************************)
C17_PatchRejectsInvalid ==
    [][(/\ PatchStep
        /\ Resolves(store, response'.req.path[2])
        /\ \E f \in Supplied(response'.req.body) : ~Valid(f, response'.req.body[f]))
       =>
        /\ response'.status = 400
        /\ "error" \in DOMAIN response'.body
        /\ store' = store]_vars

(***************************************************************************)
(* C18: PATCH /phones/:id with a body that supplies none of the mutable    *)
(* fields, such as {}, is answered with a 400 validation error and leaves  *)
(* the stored record, its `date` included, as it was.                      *)
(***************************************************************************)
C18_PatchEmptyRejected ==
    [][(PatchStep /\ Supplied(response'.req.body) = {})
       =>
        /\ response'.status = 400
        /\ "error" \in DOMAIN response'.body
        /\ Resolves(store, response'.req.path[2])
              => response'.body.error = "No valid fields to patch"
        /\ store' = store]_vars

\* PATCH {} has been turned down for a record last written before now.
C18_Witness ==
    /\ IsDetail("PATCH")
    /\ Supplied(response.req.body) = {}
    /\ response.status = 400
    /\ response.body.error = "No valid fields to patch"
    /\ Resolves(store, GivenId)
    /\ Stored(store, GivenId).date < now

(***************************************************************************)
(* C19: for GET, PUT, PATCH and DELETE on /phones/:id, an id that is no    *)
(* valid store identifier yields 400 'Invalid id format' and a well-formed *)
(* id that resolves to no record yields 404 'Phone not found' (for PUT and *)
(* PATCH given an otherwise valid body); in both cases no record is        *)
(* created, modified or removed.  It fails for a PATCH that supplies only  *)
(* hasBookmark or reviews to an id with no record.                         *)
(***************************************************************************)
\* This step serves a request on /phones/:id.
AnyDetailStep ==
    /\ response = Idle
    /\ response'.req.method \in {"GET", "PUT", "PATCH", "DELETE"}
    /\ Len(response'.req.path) = 2

\* The body is one the endpoint is to accept.
ValidBody(method, body) ==
    CASE method = "PUT" ->
            Given(body.title) /\ Given(body.brand) /\ Given(body.description)
      [] method = "PATCH" ->
            Supplied(body) # {} /\ \A f \in Supplied(body) : Valid(f, body[f])
      [] OTHER -> TRUE

C19_IdErrors ==
    [][AnyDetailStep =>
        LET id == response'.req.path[2]
            req == response'.req
        IN  /\ id = BadId =>
                  /\ response'.status = 400
                  /\ response'.body = [error |-> "Invalid id format"]
                  /\ store' = store
            /\ (id # BadId /\ ~Resolves(store, id) /\ ValidBody(req.method, req.body)) =>
                  /\ response'.status = 404
                  /\ response'.body = [error |-> "Phone not found"]
                  /\ store' = store]_vars

(***************************************************************************)
(* C20: deletion is permanent: once DELETE /phones/:id has answered 204,   *)
(* under every later sequence or interleaving of requests, PUT and PATCH   *)
(* on that id and seed included, the id never resolves to a record again   *)
(* and every later DELETE, GET, PUT or PATCH on that id answers 404.  As   *)
(* stated it fails for a PUT or PATCH whose body is turned down: that one  *)
(* is answered 400.                                                        *)
(***************************************************************************)
\* This step serves a request on an id DELETE has answered 204 for.
OnDeletedStep ==
    /\ AnyDetailStep
    /\ response'.req.path[2] \in deleted

\* No id DELETE has answered 204 for resolves after this step.
StaysDeleted == \A id \in deleted' : ~Resolves(store', id)

C20_DeletedAnswers404 ==
    [][/\ StaysDeleted
       /\ OnDeletedStep => response'.status = 404]_vars

(***************************************************************************)
(* C20, amended: once DELETE /phones/:id has answered 204, the id never    *)
(* resolves to a record again, every later DELETE or GET on that id        *)
(* answers 404, and every later PUT or PATCH on it answers 404 or, when    *)
(* its body is turned down, 400: never a success.                          *)
(***************************************************************************)
C20_DeletedNeverSucceeds ==
    [][/\ StaysDeleted
       /\ OnDeletedStep =>
             \/ response'.status = 404
             \/ /\ response'.req.method \in {"PUT", "PATCH"}
                /\ response'.status = 400]_vars

\* After a seed has run and a record has been created again, a PUT on a
\* deleted id has been answered 404.
C20_Witness ==
    /\ IsDetail("PUT")
    /\ GivenId \in deleted
    /\ response.status = 404
    /\ seed.runs > 0
    /\ Len(store) > 0

(***************************************************************************)
(* C21: for every record, the stored `date` never decreases over the       *)
(* successive writes applied to it, under every interleaving of concurrent *)
(* successful PUT and PATCH requests on the record, the clock never going  *)
(* back.  It fails when the store applies two updates in the opposite      *)
(* order to that in which their handlers took their timestamps.            *)
(***************************************************************************)
C21_DateMonotonic ==
    [][\A k \in 1..Len(store), j \in 1..Len(store') :
          store'[j].id = store[k].id => store'[j].date >= store[k].date]_vars

(***************************************************************************)
(* C30: when two successful PATCH requests on the same existing record     *)
(* supply disjoint sets of fields and run concurrently, then after both    *)
(* are complete the record holds the values of both requests for their     *)
(* fields, and no field supplied by neither has changed, `date` apart.     *)
(***************************************************************************)
\* The fields an update sets, `date` apart.
FieldsOf(op) == DOMAIN op.update \ {"date"}

\* The i-th and the j-th update applied are two such PATCH requests: both
\* answered 200 for the same record, the second sent before the first was
\* applied, and nothing written to the record between the two.
ConcurrentPatches(i, j) ==
    /\ i < j
    /\ done[i].op.method = "PATCH" /\ done[j].op.method = "PATCH"
    /\ done[i].status = 200 /\ done[j].status = 200
    /\ done[i].op.id = done[j].op.id
    /\ FieldsOf(done[i].op) \cap FieldsOf(done[j].op) = {}
    /\ done[j].op.n <= done[i].issued
    /\ done[j].before = done[i].updated

C30_NoLostUpdate ==
    \A i, j \in 1..Len(done) :
        ConcurrentPatches(i, j) =>
            \A was \in done[i].before, r \in done[j].updated :
                \A f \in DOMAIN r \ {"date"} :
                    r[f] = IF f \in FieldsOf(done[i].op) THEN done[i].op.update[f]
                           ELSE IF f \in FieldsOf(done[j].op) THEN done[j].op.update[f]
                           ELSE was[f]

\* A PATCH of the title and a PATCH of the brand, both sent before either
\* was applied, have been applied to a record with reviews, the one sent
\* later first.
C30_Witness ==
    /\ Len(done) = 2
    /\ ConcurrentPatches(1, 2)
    /\ done[1].op.n = 2
    /\ \E r \in done[2].updated :
          r.title = <<"c">> /\ r.brand = <<"d">> /\ r.reviews = Str(<<"r">>)

(***************************************************************************)
(* C22: for an existing record last modified at T, GET /phones/:id with a  *)
(* valid If-Modified-Since at or after T answers 304 with no body, and     *)
(* with a valid If-Modified-Since before T answers 200 with the full       *)
(* record and a Last-Modified header denoting T, to the second as an HTTP  *)
(* date does; neither changes the store.                                   *)
(***************************************************************************)
\* The second an instant falls in.
SecondOf(t) == t \div TicksPerSecond

\* This step serves a GET /phones/:id for a record there is, with an
\* If-Modified-Since that is a date.
ConditionalGet ==
    /\ response = Idle
    /\ response'.req.method = "GET"
    /\ Len(response'.req.path) = 2
    /\ Resolves(store, response'.req.path[2])
    /\ response'.req.headers["if-modified-since"] # Undefined
    /\ response'.req.headers["if-modified-since"].t = "date"

C22_ConditionalGet ==
    [][ConditionalGet =>
        LET record == Stored(store, response'.req.path[2])
            since == response'.req.headers["if-modified-since"].v
        IN  /\ store' = store
            /\ IF since >= record.date
               THEN /\ response'.status = 304
                    /\ response'.body = EmptyObject
               ELSE /\ response'.status = 200
                    /\ \A f \in DOMAIN record : response'.body[f] = record[f]
                    /\ "Last-Modified" \in DOMAIN response'.headers
                    /\ response'.headers["Last-Modified"].t = "date"
                    /\ response'.headers["Last-Modified"].v
                          = SecondOf(record.date) * TicksPerSecond]_vars

\* A record replaced after the clock has moved has been asked for with the
\* very instant of its replacement and answered 304.
C22_Witness ==
    /\ IsDetail("GET")
    /\ response.status = 304
    /\ Resolves(store, GivenId)
    /\ Stored(store, GivenId).date > 0
    /\ Stored(store, GivenId).title = <<"b">>
    /\ response.req.headers["if-modified-since"] = DateString(Stored(store, GivenId).date)

(***************************************************************************)
(* C23: the conditional GET compares at one-second resolution: when the    *)
(* stored `date` falls in the same second as the If-Modified-Since instant *)
(* the record counts as not modified (304); so does a record not written   *)
(* since, when the Last-Modified value of an earlier 200 is sent back as   *)
(* If-Modified-Since.  It fails for a record written within a second.      *)
(***************************************************************************)
C23_SecondResolution ==
    [][ConditionalGet =>
        LET record == Stored(store, response'.req.path[2])
            since == response'.req.headers["if-modified-since"].v
        IN  SecondOf(since) = SecondOf(record.date) => response'.status = 304]_vars

(***************************************************************************)
(* C24: a POST /phones/seed that no other write overlaps removes every     *)
(* record stored before it and leaves exactly max(amount, 5) records for   *)
(* an integer amount (amount 3 gives 5); a following GET /phones without   *)
(* parameters returns all of them and no pagination object.                *)
(***************************************************************************)
\* The seed has answered and no other request has written since it began.
SeedAlone == seed.pc = "sent" /\ ~seed.disturbed

\* This step serves a GET /phones without parameters.
PlainGetStep ==
    /\ response = Idle
    /\ response'.req.method = "GET"
    /\ response'.req.path = <<"phones">>
    /\ \A p \in DOMAIN response'.req.query : response'.req.query[p] = Undefined

C24_SeedLeavesFloor ==
    [][/\ (SeedAlone' /\ seed'.amount.t = "number") =>
            /\ Len(store') = IF seed'.amount.v > 5 THEN seed'.amount.v ELSE 5
            /\ \A k \in 1..Len(store') :
                  /\ store'[k].id > nextId' - Len(store')
                  /\ store'[k].title \in FakerProductNames
       /\ (seed.pc = "deleteMany" /\ seed'.pc = "create") => store' = <<>>
       /\ (SeedAlone /\ PlainGetStep) =>
            /\ response'.status = 200
            /\ Len(response'.body.items) = Len(store)
            /\ \A k \in 1..Len(store) : response'.body.items[k].id = store[k].id
            /\ "pagination" \notin DOMAIN response'.body]_vars

\* A seed with amount 3 has replaced a stored record by five, and GET /phones
\* has returned the five.
C24_Witness ==
    /\ SeedAlone
    /\ seed.amount = Num(3)
    /\ seed.removed > 0
    /\ Len(store) = 5
    /\ response # Idle
    /\ response.req.method = "GET"
    /\ response.req.path = <<"phones">>
    /\ response.status = 200
    /\ Len(response.body.items) = 5

(***************************************************************************)
(* C25: the seed is not atomic: a GET /phones served between the steps of  *)
(* a running seed sees the collection as far as the seed has come, empty   *)
(* after the clear and before the first insert, fewer than the N seeded    *)
(* records before the last, although the collection was not empty before   *)
(* the seed and holds N records after it.                                  *)
(***************************************************************************)
C25_SeedNotAtomic ==
    [][(seed.pc = "create" /\ ~seed.disturbed /\ PlainGetStep) =>
         /\ response'.status = 200
         /\ Len(response'.body.items) = seed.i]_vars

\* GET /phones has returned nothing, after the clear of a seed that removed
\* a record and before its first insert.
C25_Witness ==
    /\ seed.pc = "create"
    /\ seed.i = 0
    /\ seed.safeAmount >= 5
    /\ seed.removed > 0
    /\ store = <<>>
    /\ response # Idle
    /\ response.req.method = "GET"
    /\ response.req.path = <<"phones">>
    /\ response.status = 200
    /\ response.body.items = <<>>

(***************************************************************************)
(* C26: a store failure during a /phones operation on a well-formed        *)
(* request (find, count, insert, update by id, delete by id) is answered   *)
(* with a server error (5xx), never with a success status and never with   *)
(* a client error such as 400 "Invalid id format".  It fails for the four  *)
(* /phones/:id handlers.                                                   *)
(***************************************************************************)
\* The request is one its handler passes on to the store.
WellFormed(req) ==
    /\ Len(req.path) = 2 => req.path[2] # BadId
    /\ req.method \in {"PUT", "PATCH"} => ValidBody(req.method, req.body)
    /\ req.method = "POST" =>
          Given(req.body.title) /\ Given(req.body.brand) /\ Given(req.body.description)

\* This step answers a well-formed request while the store rejects calls.
FaultStep ==
    /\ ~storeUp
    /\ response = Idle
    /\ response' # Idle
    /\ WellFormed(response'.req)

C26_StoreFailureIs5xx ==
    [][FaultStep => (response'.status >= 500 /\ response'.status <= 599)]_vars

(***************************************************************************)
(* C27: every request other than OPTIONS whose Accept header does not      *)
(* allow application/json, a request without Accept header included, is    *)
(* answered 406 before method override, body parsing and routing, so that  *)
(* no handler runs and the store is unchanged; an OPTIONS request is never *)
(* answered 406.  It fails for a header that names application/json only   *)
(* to exclude it.                                                          *)
(***************************************************************************)
\* This step answers the request that has reached the server.
ServeStep ==
    /\ wire # NoWire
    /\ response = Idle
    /\ response' # Idle

\* The header has a media range that covers application/json and whose
\* quality is not 0.
AllowsJson(accept) ==
    /\ accept # Undefined
    /\ \E i \in 1..Len(accept.v) :
          /\ toLowerCase(accept.v)[i] \in {"application/json", "*/*"}
          /\ ~(i < Len(accept.v) /\ accept.v[i + 1] = ";q=0")

C27_AcceptGate ==
    [][ServeStep =>
         IF wire.method = "OPTIONS" THEN response'.status # 406
         ELSE ~AllowsJson(wire.accept) =>
                /\ response'.status = 406
                /\ response'.req.method = wire.method
                /\ store' = store]_vars

(***************************************************************************)
(* C28: every request that has passed the Accept check, whose method after *)
(* method override is POST, PUT or PATCH and whose Content-Type is neither *)
(* application/json nor multipart/form-data, is answered 415 before a      *)
(* route handler runs, the store unchanged; a request whose method is then *)
(* GET, DELETE or OPTIONS is never answered 415.  It fails for a media     *)
(* type whose name merely begins with application/json.                    *)
(***************************************************************************)
\* The words that are parameters of a media type.
Parameters == {"; charset=utf-8", "; boundary=x"}

\* The media type of the header, its parameters aside, is this one.
MediaTypeIs(ct, type) ==
    /\ ct # Undefined
    /\ Len(ct.v) >= 1
    /\ toLowerCase(ct.v)[1] = type
    /\ \A i \in 2..Len(ct.v) : ct.v[i] \in Parameters

C28_ContentTypeGate ==
    [][(ServeStep /\ response'.status # 406) =>
         IF response'.req.method \in {"POST", "PUT", "PATCH"}
         THEN (/\ ~MediaTypeIs(wire.contentType, "application/json")
               /\ ~MediaTypeIs(wire.contentType, "multipart/form-data")) =>
                 /\ response'.status = 415
                 /\ store' = store
         ELSE response'.status # 415]_vars

(***************************************************************************)
(* C29: method override comes before the content-type check and routing:  *)
(* for V among PUT, PATCH and DELETE, a POST with X-HTTP-Method-Override V *)
(* in any letter case, or with ?_method=V and no override header, is       *)
(* served exactly as the V request to the same path with the same headers  *)
(* and body would be (same response, same effect on the store); a POST     *)
(* with another override value, and every request that is no POST, keeps   *)
(* its method.                                                             *)
(***************************************************************************)
Verbs == {"PUT", "PATCH", "DELETE"}

\* The verb the request declares: that of the override header when it has
\* one, else that of _method, in capitals.
Declared(w) ==
    LET given == IF w.override # Undefined THEN w.override ELSE w._method
    IN  IF given = Undefined THEN <<>> ELSE toUpperCase(given.v)

Overridden(w) == w.method = "POST" /\ \E v \in Verbs : Declared(w) = <<v>>

\* The same request sent with the declared verb as its method.
Native(w) ==
    [w EXCEPT !.method = Declared(w)[1], !.override = Undefined, !._method = Undefined]

C29_MethodOverride ==
    [][ServeStep =>
         IF Overridden(wire) THEN Serve(Native(wire))
         ELSE response'.req.method = wire.method]_vars

\* A POST with X-HTTP-Method-Override: put and ?_method=patch has been
\* served as a PUT: it has replaced the title and kept the reviews.
C29_Witness ==
    /\ wire # NoWire
    /\ wire.method = "POST"
    /\ wire.override = Str(<<"put">>)
    /\ wire._method = Str(<<"patch">>)
    /\ response # Idle
    /\ response.req.method = "PUT"
    /\ response.status = 200
    /\ Resolves(store, 1)
    /\ Stored(store, 1).title = <<"c">>
    /\ Stored(store, 1).reviews = Str(<<"r">>)

====
